---------------------------- MODULE Spec2Model ----------------------------
(***************************************************************************)
(* mp4-info (src/src/index.js): the atom parser getMp4Info and the         *)
(* metadata traversal getMp4InfoFromAtoms, as a state machine.             *)
(*                                                                         *)
(* A source is a sequence of bytes (0..255), 0-based in the code and       *)
(* 1-based here: byte k of the file is file[k + 1].  A JavaScript string   *)
(* is the sequence of its character codes.  A number produced by           *)
(* bytesToNumber is kept as the four base-256 digits of the unsigned       *)
(* 32-bit register the code computes in, most significant first, so that   *)
(* every value up to 2^32 - 1 is exact.  An object is a function from its  *)
(* property names to their values; a property the code never set is not    *)
(* in the DOMAIN.                                                          *)
(***************************************************************************)
EXTENDS Integers, Sequences, FiniteSets, TLC

VARIABLES
  file,     \* the bytes of the source handed to getMp4Info
  kind,     \* what was handed over: "Blob", "Buffer" (ArrayBuffer, typed array
            \* or Array), "missing" (a falsy value) or "unsupported"
  pc,       \* "idle" before getMp4Info is called, "called" after
  stack,    \* the live consumeAtoms activations, outermost first
  pending,  \* the reads handed to a FileReader and not yet answered
  reads,    \* every slice the parser has asked of the source, in order
  raised,   \* the errors created so far, in order
  calls,    \* the invocations of the caller's callback, in order
  bytes,    \* argument of the primitive decoder under test
  num       \* its result

vars == <<file, kind, pc, stack, pending, reads, raised, calls, bytes, num>>

(***************************************************************************)
(* Bounds of the model.                                                    *)
(***************************************************************************)
MaxPieces == 2   \* sibling boxes in a generated structural file
MaxDepth == 2    \* containers wrapped around a generated structural file
MaxTracks == 2   \* trak boxes in a generated movie file
MaxWidth == 8    \* longest byte string handed to the primitive decoders

Min(a, b) == IF a < b THEN a ELSE b

\* obj[k] = v, as an assignment to a property of a JavaScript object.
Put(obj, k, v) == [f \in DOMAIN obj \cup {k} |-> IF f = k THEN v ELSE obj[f]]

Has(obj, k) == k \in DOMAIN obj

\* Array.prototype.slice / ArrayBuffer.prototype.slice / Blob.prototype.slice
\* for 0 <= a: the elements a .. b-1, both ends clamped to the length.
Slice(s, a, b) ==
  LET lo == Min(a, Len(s))
      hi == Min(b, Len(s))
  IN IF hi <= lo THEN <<>> ELSE SubSeq(s, lo + 1, hi)

(***************************************************************************)
(* Primitive decoders.                                                     *)
(***************************************************************************)
Zero == <<0, 0, 0, 0>>

One == <<0, 0, 0, 1>>

\* (num << 8) >>> 0 on the 32-bit register: the top digit is shifted out.
ShiftLeft8(n) == <<n[2], n[3], n[4], 0>>

RECURSIVE bytesToNumberLoop(_, _, _)
bytesToNumberLoop(bs, i, n) ==
  IF i > Len(bs) THEN n
  ELSE LET s == ShiftLeft8(n)
       IN bytesToNumberLoop(bs, i + 1, <<s[1], s[2], s[3], s[4] + bs[i]>>)

bytesToNumber(bs) == bytesToNumberLoop(bs, 1, Zero)

RECURSIVE bytesToStringLoop(_, _, _)
bytesToStringLoop(bs, i, str) ==
  IF i > Len(bs) THEN str
  ELSE bytesToStringLoop(bs, i + 1,
                         IF bs[i] # 0 THEN Append(str, bs[i]) ELSE str)

bytesToString(bs) == bytesToStringLoop(bs, 1, <<>>)

\* The digits of a number without its leading zeros: two digit strings
\* denote the same number iff they agree after stripping.
RECURSIVE Strip(_)
Strip(ds) == IF ds # <<>> /\ ds[1] = 0 THEN Strip(Tail(ds)) ELSE ds

\* A register below 2^24 as an integer, and an integer below 2^24 as a
\* register.  Every offset and length of the model is far below 2^24.
Small(n) == (n[2] * 256 + n[3]) * 256 + n[4]

NumOf(k) == <<0, k \div 65536, (k \div 256) % 256, k % 256>>

NumLess(n, k) == n[1] = 0 /\ Small(n) < k

NumGreater(n, k) == n[1] # 0 \/ Small(n) > k

(***************************************************************************)
(* Tags and messages.                                                      *)
(***************************************************************************)
moov == <<109, 111, 111, 118>>
trak == <<116, 114, 97, 107>>
mdia == <<109, 100, 105, 97>>
minf == <<109, 105, 110, 102>>
dinf == <<100, 105, 110, 102>>
stbl == <<115, 116, 98, 108>>
mvhd == <<109, 118, 104, 100>>
hdlr == <<104, 100, 108, 114>>
mdhd == <<109, 100, 104, 100>>
stsd == <<115, 116, 115, 100>>
stsz == <<115, 116, 115, 122>>
free == <<102, 114, 101, 101>>
vide == <<118, 105, 100, 101>>
soun == <<115, 111, 117, 110>>

Containers == {moov, trak, mdia, minf, dinf, stbl}

Decoded == {mvhd, hdlr, mdhd, stsd, stsz}

Null == "null"

Undefined == <<-1>>

InvalidAtomType == "Invalid Atom Type"

InvalidAtomSize == "Invalid Atom Size"

FailedToRead == "Failed to read file"

FileRequired == "File is required"

UnsupportedFile == "\"file\" must be one of: Blob, ArrayBuffer, Array"

(***************************************************************************)
(* consumeAtomHeader: the callback's work on the bytes read at `start`.    *)
(* Number.isNaN(atom.size) is never true of a bytesToNumber result.        *)
(***************************************************************************)
HeaderSizeOf(size32) == IF size32 = One THEN 16 ELSE 8

\* ResolveSize taking a size of 0 as `end` instead of `end - start`: C6 must
\* tell.
ResolveSizeToEnd(buff, size32, start, end) ==
  IF size32 = Zero THEN NumOf(end)
  ELSE IF size32 = One THEN bytesToNumber(Slice(buff, 8, 16))
  ELSE size32

ResolveSize(buff, size32, start, end) ==
  IF size32 = Zero THEN NumOf(end - start)
  ELSE IF size32 = One THEN bytesToNumber(Slice(buff, 8, 16))
  ELSE size32

\* SizeError without the check against the header size: C1 must tell.
SizeErrorNoLowerBound(size, headerSize, start, end) ==
  NumGreater(size, end - start)

\* SizeError without the check against the bytes remaining: C12 must tell.
SizeErrorNoUpperBound(size, headerSize, start, end) ==
  NumLess(size, headerSize)

SizeError(size, headerSize, start, end) ==
  NumLess(size, headerSize) \/ NumGreater(size, end - start)

ParseHeader(buff, start, end) ==
  LET size32 == bytesToNumber(Slice(buff, 0, 4))
      type == bytesToString(Slice(buff, 4, 8))
      headerSize == HeaderSizeOf(size32)
      size == ResolveSize(buff, size32, start, end)
  IN IF Len(type) # 4 THEN [err |-> InvalidAtomType]
     ELSE IF SizeError(size, headerSize, start, end)
       THEN [err |-> InvalidAtomSize]
     ELSE [err |-> Null, headerSize |-> headerSize,
           atom |-> [off |-> start, size |-> Small(size), type |-> type]]

(***************************************************************************)
(* The body decoders: the slice each asks for, and the record each builds  *)
(* from the bytes it got (buff.slice clamps, and bytesToNumber of no bytes *)
(* is 0).                                                                  *)
(***************************************************************************)
BodyReadEnd(type, start, end) ==
  IF type = mvhd THEN start + 26
  ELSE IF type = hdlr THEN end
  ELSE IF type = mdhd THEN start + 22
  ELSE IF type = stsd THEN start + 48
  ELSE start + 12

consumeMvhd(buff) ==
  [creationTime |-> bytesToNumber(Slice(buff, 4, 8)),
   modificationTime |-> bytesToNumber(Slice(buff, 8, 12)),
   timeScale |-> bytesToNumber(Slice(buff, 12, 16)),
   duration |-> bytesToNumber(Slice(buff, 16, 20)),
   preferredRate |-> bytesToNumber(Slice(buff, 20, 24)),
   preferredVolume |-> bytesToNumber(Slice(buff, 24, 26))]

consumeHdlr(buff, end) ==
  [type |-> bytesToString(Slice(buff, 4, 8)),
   subtype |-> bytesToString(Slice(buff, 8, 12)),
   name |-> bytesToString(Slice(buff, 12, end))]

consumeMdhd(buff) ==
  [creationTime |-> bytesToNumber(Slice(buff, 4, 8)),
   modificationTime |-> bytesToNumber(Slice(buff, 8, 12)),
   timeScale |-> bytesToNumber(Slice(buff, 12, 16)),
   duration |-> bytesToNumber(Slice(buff, 16, 20)),
   language |-> bytesToNumber(Slice(buff, 20, 22))]

consumeStsd(buff) ==
  [format |-> bytesToString(Slice(buff, 12, 16)),
   width |-> bytesToNumber(Slice(buff, 40, 42)),
   height |-> bytesToNumber(Slice(buff, 42, 44)),
   resolution |-> bytesToNumber(Slice(buff, 44, 46))]

consumeStsz(buff) ==
  [sampleSize |-> bytesToNumber(Slice(buff, 4, 8)),
   sampleCount |-> bytesToNumber(Slice(buff, 8, 12))]

DecodeBody(type, buff, end) ==
  IF type = mvhd THEN consumeMvhd(buff)
  ELSE IF type = hdlr THEN consumeHdlr(buff, end)
  ELSE IF type = mdhd THEN consumeMdhd(buff)
  ELSE IF type = stsd THEN consumeStsd(buff)
  ELSE consumeStsz(buff)

(***************************************************************************)
(* getMp4InfoFromAtoms.  forAtoms(atoms, type, f) runs f on the atoms of   *)
(* that type in array order and does nothing when `atoms` is undefined; a  *)
(* callback that only assigns leaves the value of the last atom it ran on. *)
(* A quotient is kept as the operands of the division.                     *)
(***************************************************************************)
OfType(atoms, type) == SelectSeq(atoms, LAMBDA a : a.type = type)

Kids(atom) == IF Has(atom, "atoms") THEN atom.atoms ELSE <<>>

RECURSIVE KidsOfAll(_, _)
KidsOfAll(atoms, i) ==
  IF i > Len(atoms) THEN <<>> ELSE Kids(atoms[i]) \o KidsOfAll(atoms, i + 1)

LastData(atoms, field) ==
  IF atoms = <<>> THEN Undefined ELSE atoms[Len(atoms)].data[field]

Truthy(v) == v # Undefined /\ v # Zero

\* SetIfTruthy with a first-wins guard: C7 must tell.
SetIfFirst(result, k, v) ==
  IF Truthy(v) /\ ~Has(result, k) THEN Put(result, k, v) ELSE result

SetIfTruthy(result, k, v) == IF Truthy(v) THEN Put(result, k, v) ELSE result

SetFrameRate(result, sampleCount, timeScale, duration) ==
  IF Truthy(sampleCount) /\ Truthy(timeScale) /\ Truthy(duration)
    THEN Put(result, "frameRate",
             [sampleCount |-> sampleCount, timeScale |-> timeScale,
              duration |-> duration])
    ELSE result

MdiaBody(atom, result) ==
  LET subtype == LastData(OfType(Kids(atom), hdlr), "subtype")
      mdhds == OfType(Kids(atom), mdhd)
      timeScale == LastData(mdhds, "timeScale")
      duration == LastData(mdhds, "duration")
      stbls == OfType(KidsOfAll(OfType(Kids(atom), minf), 1), stbl)
      stsds == OfType(KidsOfAll(stbls, 1), stsd)
      stszs == OfType(KidsOfAll(stbls, 1), stsz)
      width == LastData(stsds, "width")
      height == LastData(stsds, "height")
      resolution == LastData(stsds, "resolution")
      sampleCount == LastData(stszs, "sampleCount")
      r1 == SetIfTruthy(result, "width", width)
      r2 == SetIfTruthy(r1, "height", height)
      r3 == SetIfTruthy(r2, "resolution", resolution)
  IN IF subtype # vide THEN result
     ELSE SetFrameRate(r3, sampleCount, timeScale, duration)

RECURSIVE MdiaLoop(_, _, _)
MdiaLoop(atoms, i, result) ==
  IF i > Len(atoms) THEN result
  ELSE MdiaLoop(atoms, i + 1, MdiaBody(atoms[i], result))

\* MvhdLoop setting duration only from non-zero operands: C8 must tell.
RECURSIVE MvhdLoopGuarded(_, _, _)
MvhdLoopGuarded(atoms, i, result) ==
  IF i > Len(atoms) THEN result
  ELSE MvhdLoopGuarded(atoms, i + 1,
         IF Truthy(atoms[i].data.duration) /\ Truthy(atoms[i].data.timeScale)
           THEN Put(result, "duration",
                    [duration |-> atoms[i].data.duration,
                     timeScale |-> atoms[i].data.timeScale])
           ELSE result)

RECURSIVE MvhdLoop(_, _, _)
MvhdLoop(atoms, i, result) ==
  IF i > Len(atoms) THEN result
  ELSE MvhdLoop(atoms, i + 1,
                Put(result, "duration",
                    [duration |-> atoms[i].data.duration,
                     timeScale |-> atoms[i].data.timeScale]))

MoovBody(atom, result) ==
  LET r1 == MvhdLoop(OfType(Kids(atom), mvhd), 1, result)
  IN MdiaLoop(OfType(KidsOfAll(OfType(Kids(atom), trak), 1), mdia), 1, r1)

RECURSIVE MoovLoop(_, _, _)
MoovLoop(atoms, i, result) ==
  IF i > Len(atoms) THEN result
  ELSE MoovLoop(atoms, i + 1, MoovBody(atoms[i], result))

getMp4InfoFromAtoms(atoms) == MoovLoop(OfType(atoms, moov), 1, <<>>)

(***************************************************************************)
(* The parser.  A machine m is the part of the state a handler changes:    *)
(* [stack, pending, reads, raised, calls].  An activation of consumeAtoms  *)
(* is [start, end, n, atoms]; a read is [kind, start, end, from, to]: the  *)
(* slice [from, to) asked of the source by consumeAtomHeader ("header") or *)
(* by the body decoder of the atom type `kind`, called with (start, end).  *)
(***************************************************************************)
Top(m) == m.stack[Len(m.stack)]

SetTop(m, f) == [m EXCEPT !.stack[Len(m.stack)] = f]

\* The caller's callback (getMp4Info's `callback`).
Callback(m, call) ==
  [m EXCEPT !.calls = Append(@, Put(call, "at", Len(m.reads)))]

\* index.js 511-522: the callback getMp4Info gives the outermost consumeAtoms.
TopCallback(m, err, atoms) ==
  IF err # Null THEN Callback(m, [err |-> err])
  ELSE Callback(m, [err |-> Null,
                    result |-> Put(getMp4InfoFromAtoms(atoms), "atoms", atoms)])

\* callback(err) of the activation at `level`: index.js 302-303 hands the
\* same err to the enclosing activation's callback, up to getMp4Info's.
\* PropagateErr with a nested activation's error dropped and the outermost
\* atoms handed on: C5 must tell.
PropagateErrSwallowed(m, level, err) ==
  TopCallback(m, IF level > 1 THEN Null ELSE err, m.stack[1].atoms)

RECURSIVE PropagateErr(_, _, _)
PropagateErr(m, level, err) ==
  IF level <= 1 THEN TopCallback(m, err, <<>>)
  ELSE PropagateErr(m, level - 1, err)

Raise(m, err) ==
  PropagateErr([m EXCEPT !.raised = Append(@, err)], Len(m.stack), err)

\* data.slice(from, to) handed to ensureArrayBuffer.
IssueRead(m, r) ==
  [m EXCEPT !.reads = Append(@, r), !.pending = @ \cup {r}]

HeaderRead(start, end) ==
  [kind |-> <<>>, start |-> start, end |-> end,
   from |-> start, to |-> start + 16]

BodyRead(type, start, end) ==
  [kind |-> type, start |-> start, end |-> end,
   from |-> start, to |-> BodyReadEnd(type, start, end)]

\* atom.atoms = arr / atom.data = data on the atom last pushed.
SetLastAtom(f, k, v) ==
  [f EXCEPT !.atoms[Len(f.atoms)] = Put(@, k, v)]

\* next ending a range on n > end instead of n >= end: C11 must tell.
RECURSIVE nextInclusive(_)
nextInclusive(m) ==
  LET f == Top(m)
  IN IF f.n > f.end
       THEN IF Len(m.stack) = 1
              THEN TopCallback([m EXCEPT !.stack = <<>>], Null, f.atoms)
              ELSE LET popped == [m EXCEPT !.stack = SubSeq(@, 1, Len(@) - 1)]
                   IN nextInclusive(SetTop(popped,
                                  SetLastAtom(Top(popped), "atoms", f.atoms)))
       ELSE IssueRead(m, HeaderRead(f.n, f.end))

\* next() of the innermost activation (index.js 273-289), with the return
\* into the enclosing activation (305-306) when its range is exhausted.
RECURSIVE next(_)
next(m) ==
  LET f == Top(m)
  IN IF f.n >= f.end
       THEN IF Len(m.stack) = 1
              THEN TopCallback([m EXCEPT !.stack = <<>>], Null, f.atoms)
              ELSE LET popped == [m EXCEPT !.stack = SubSeq(@, 1, Len(@) - 1)]
                   IN next(SetTop(popped,
                                  SetLastAtom(Top(popped), "atoms", f.atoms)))
       ELSE IssueRead(m, HeaderRead(f.n, f.end))

consumeAtoms(m, start, end) ==
  next([m EXCEPT !.stack =
          Append(@, [start |-> start, end |-> end, n |-> start, atoms |-> <<>>])])

PayloadStart(n, headerSize) == n + 8

\* Dispatch asking for the next sibling's header while a body read is
\* outstanding: C10 must tell.
DispatchPrefetch(m, r, h) ==
  LET f == Top(m)
      atom == h.atom
      atomStart == PayloadStart(f.n, h.headerSize)
      atomEnd == f.n + atom.size
      m1 == SetTop(m, [f EXCEPT !.atoms = Append(@, atom), !.n = atomEnd])
      m2 == IssueRead(m1, BodyRead(atom.type, atomStart, atomEnd))
  IN IF atom.type \in Containers THEN consumeAtoms(m1, atomStart, atomEnd)
     ELSE IF atom.type \in Decoded
       THEN IF atomEnd < f.end THEN IssueRead(m2, HeaderRead(atomEnd, f.end))
            ELSE m2
     ELSE next(m1)

\* index.js 285-372: the atom is pushed, the cursor moved, the type dispatched.
Dispatch(m, r, h) ==
  LET f == Top(m)
      atom == h.atom
      atomStart == PayloadStart(f.n, h.headerSize)
      atomEnd == f.n + atom.size
      m1 == SetTop(m, [f EXCEPT !.atoms = Append(@, atom), !.n = atomEnd])
  IN IF atom.type \in Containers THEN consumeAtoms(m1, atomStart, atomEnd)
     ELSE IF atom.type \in Decoded
       THEN IssueRead(m1, BodyRead(atom.type, atomStart, atomEnd))
     ELSE next(m1)

\* The answer to a read: reader.onload, or the direct call of
\* ensureArrayBuffer's callback for a source in memory.
Answer(m, r, data) ==
  LET buff == Slice(data, r.from, r.to)
      m0 == [m EXCEPT !.pending = @ \ {r}]
  IN IF r.kind = <<>>
       THEN LET h == ParseHeader(buff, r.start, r.end)
            IN IF h.err # Null THEN Raise(m0, h.err) ELSE Dispatch(m0, r, h)
       ELSE next(SetTop(m0, SetLastAtom(Top(m0), "data",
                                        DecodeBody(r.kind, buff, r.end))))

\* reader.onerror (index.js 49-52).
ReadFailed(m, r) == Raise([m EXCEPT !.pending = @ \ {r}], FailedToRead)

\* A source in memory answers every read inside the call that asks for it.
RECURSIVE RunSync(_, _)
RunSync(m, data) ==
  IF m.pending = {} THEN m
  ELSE RunSync(Answer(m, CHOOSE r \in m.pending : TRUE, data), data)

(***************************************************************************)
(* The sources the model is run on, written with an encoder of the format. *)
(***************************************************************************)
U16(k) == <<k \div 256, k % 256>>

U32(k) == NumOf(k)

Box(type, payload) == U32(8 + Len(payload)) \o type \o payload

\* The 64-bit form: size field 1, the size in bytes [8, 16) as two words.
Box64(type, hi, lo, payload) == One \o type \o hi \o lo \o payload

MvhdBody(timeScale, duration) ==
  Zero \o U32(3) \o U32(4) \o U32(timeScale) \o U32(duration)
       \o U32(65536) \o U16(256)

HdlrBody(subtype) == Zero \o <<109, 104, 108, 114>> \o subtype \o <<86, 0>>

MdhdBody(timeScale, duration) ==
  Zero \o U32(3) \o U32(4) \o U32(timeScale) \o U32(duration) \o U16(5)

StsdBody(width, height, resolution) ==
  Zero \o U32(1) \o U32(38) \o <<97, 118, 99, 49>>
       \o [i \in 1..24 |-> 0] \o U16(width) \o U16(height)
       \o U16(resolution) \o U16(resolution)

StszBody(sampleCount) == Zero \o U32(0) \o U32(sampleCount)

\* One sibling of a structural file: well-formed and malformed headers,
\* both size sentinels, short and full bodies, a container shorter than
\* its children, stray bytes.
Pieces ==
  << Box(free, <<>>),
     Zero \o free \o <<9, 9>>,
     Zero \o moov \o Zero \o mvhd \o MvhdBody(10, 20),
     U32(4) \o free,
     U32(4000) \o free \o <<5>>,
     U32(4) \o <<102, 0, 101, 101>>,
     Box64(free, Zero, U32(16), <<>>),
     Box64(free, One, U32(16), <<>>),
     Box64(free, Zero, U32(12), <<>>),
     Box64(mvhd, Zero, U32(42), MvhdBody(10, 20)),
     Box64(moov, Zero, U32(24), Box(free, <<>>)),
     Box(mvhd, <<>>),
     U32(20) \o moov \o Box(free, <<>>) \o Box(free, <<>>),
     <<1, 2, 3>> >>

RECURSIVE Concat(_, _)
Concat(ps, i) == IF i > Len(ps) THEN <<>> ELSE Pieces[ps[i]] \o Concat(ps, i + 1)

RECURSIVE Wrap(_, _)
Wrap(inner, d) ==
  IF d = 0 THEN inner
  ELSE Box(IF d % 2 = 1 THEN trak ELSE moov, Wrap(inner, d - 1))

StructuralFiles ==
  { Wrap(Concat(ps, 1), d) :
      ps \in UNION { [1..k -> 1..Len(Pieces)] : k \in 0..MaxPieces },
      d \in 0..MaxDepth }

\* A trak of a movie file.  Its values carry the track's position i, so
\* that a result field shows the track it was taken from.
Profiles == {"video", "zeros", "sound", "bare"}

Track(profile, i) ==
  LET hd == Box(hdlr, HdlrBody(IF profile = "sound" THEN soun ELSE vide))
      md == Box(mdhd, MdhdBody(30, 60 + i))
      z == IF profile = "zeros" THEN 0 ELSE 1
      sd == Box(stsd, StsdBody(z * (320 + i), 240 + i, 72 + i))
      sz == Box(stsz, StszBody(z * (90 + i)))
      mi == Box(minf, Box(stbl, sd \o sz))
  IN Box(trak, Box(mdia, IF profile = "bare" THEN hd ELSE hd \o md \o mi))

RECURSIVE Tracks(_, _)
Tracks(ps, i) == IF i > Len(ps) THEN <<>> ELSE Track(ps[i], i) \o Tracks(ps, i + 1)

MovieHeaders ==
  { <<>>, Box(mvhd, MvhdBody(10, 20)), Box(mvhd, MvhdBody(0, 0)),
    Box(mvhd, MvhdBody(0, 20)) }

MovieFiles ==
  { Box(free, <<>>) \o Box(moov, mh \o Tracks(ps, 1)) :
      mh \in MovieHeaders,
      ps \in UNION { [1..k -> Profiles] : k \in 0..MaxTracks } }

Files == StructuralFiles \cup MovieFiles

ByteSamples == {0, 1, 255}

(***************************************************************************)
(* The state machine.                                                      *)
(***************************************************************************)
Machine ==
  [stack |-> stack, pending |-> pending, reads |-> reads,
   raised |-> raised, calls |-> calls]

Install(m) ==
  /\ stack' = m.stack
  /\ pending' = m.pending
  /\ reads' = m.reads
  /\ raised' = m.raised
  /\ calls' = m.calls

Init ==
  /\ \/ file \in Files /\ kind \in {"Blob", "Buffer"}
     \/ file = <<>> /\ kind \in {"missing", "unsupported"}
  /\ pc = "idle"
  /\ stack = <<>>
  /\ pending = {}
  /\ reads = <<>>
  /\ raised = <<>>
  /\ calls = <<>>
  /\ bytes = <<>>
  /\ num = Zero

Refuse(m, err) == Callback([m EXCEPT !.raised = Append(@, err)], [err |-> err])

\* getMp4Info(file, callback), callback a function.
GetMp4Info ==
  /\ pc = "idle"
  /\ pc' = "called"
  /\ Install(CASE kind = "missing" -> Refuse(Machine, FileRequired)
               [] kind = "unsupported" -> Refuse(Machine, UnsupportedFile)
               [] kind = "Blob" -> consumeAtoms(Machine, 0, Len(file))
               [] kind = "Buffer" ->
                    RunSync(consumeAtoms(Machine, 0, Len(file)), file))
  /\ UNCHANGED <<file, kind, bytes, num>>

\* reader.onload of an outstanding read.
OnLoad(r) ==
  /\ r \in pending
  /\ Install(Answer(Machine, r, file))
  /\ UNCHANGED <<file, kind, pc, bytes, num>>

\* reader.onerror of an outstanding read.
OnError(r) ==
  /\ r \in pending
  /\ Install(ReadFailed(Machine, r))
  /\ UNCHANGED <<file, kind, pc, bytes, num>>

Next ==
  \/ GetMp4Info
  \/ \E r \in pending : OnLoad(r)
  \/ \E r \in pending : OnError(r)

Spec == Init /\ [][Next]_vars

\* Some outstanding read is answered: reader.onload or reader.onerror.
Respond == \E r \in pending : OnLoad(r) \/ OnError(r)

\* The call is made, and every read asked of the source is answered: weak
\* fairness of GetMp4Info and of Respond, each written out as
\* []<>(not enabled) \/ []<>(step taken) with its guard for enabledness
\* (GetMp4Info can act exactly when pc = "idle", Respond exactly when a
\* read is outstanding).
Fairness ==
  /\ []<>(pc # "idle") \/ []<><<GetMp4Info>>_vars
  /\ []<>(pending = {}) \/ []<><<Respond>>_vars

FairSpec == Spec /\ Fairness

(***************************************************************************)
(* The primitive decoder on its own: every byte string up to MaxWidth over *)
(* ByteSamples is decoded.                                                 *)
(***************************************************************************)
InitBytes ==
  /\ file = <<>>
  /\ kind = "Buffer"
  /\ pc = "decode"
  /\ stack = <<>>
  /\ pending = {}
  /\ reads = <<>>
  /\ raised = <<>>
  /\ calls = <<>>
  /\ bytes \in UNION { [1..w -> ByteSamples] : w \in 1..MaxWidth }
  /\ num = Undefined

Decode ==
  /\ pc = "decode"
  /\ pc' = "decoded"
  /\ num' = bytesToNumber(bytes)
  /\ UNCHANGED <<file, kind, stack, pending, reads, raised, calls, bytes>>

NextBytes == Decode

SpecBytes == InitBytes /\ [][NextBytes]_vars

(***************************************************************************)
(* What the claims speak of, read off the state.                           *)
(***************************************************************************)
RECURSIVE AtomSet(_)
AtomSet(atoms) ==
  UNION { {atoms[i]} \cup AtomSet(Kids(atoms[i])) : i \in 1..Len(atoms) }

Delivered == calls # <<>> /\ Has(calls[1], "result")

\* Every atom pushed so far, wherever it now hangs.
BuiltAtoms ==
  UNION { AtomSet(stack[i].atoms) : i \in 1..Len(stack) }
    \cup (IF Delivered THEN AtomSet(calls[1].result.atoms) ELSE {})

AtomsAt(built, off) == { a \in built : a.off = off }

\* The i-th read asked for a header and its bytes came back.
HeaderAnswered(i) ==
  /\ reads[i].kind = <<>>
  /\ reads[i] \notin pending
  /\ ~(i = Len(reads) /\ raised = <<FailedToRead>>)

\* The value of a big-endian digit string, exact below 2^24 and 2^24 for
\* everything from there on (no length of the model comes near it).
Value(ds) ==
  LET d == Strip(ds)
  IN IF Len(d) > 3 THEN 16777216
     ELSE IF Len(d) = 3 THEN (d[1] * 256 + d[2]) * 256 + d[3]
     ELSE IF Len(d) = 2 THEN d[1] * 256 + d[2]
     ELSE IF Len(d) = 1 THEN d[1]
     ELSE 0

Field32(n) == Value(Slice(file, n, n + 4))

TypeBytes(n) == Slice(file, n + 4, n + 8)

\* The 64-bit size field as bytesToNumber's 32-bit register keeps it: its
\* low four bytes.
Ext64Low(n) == Value(Slice(file, n + 12, n + 16))

DeclaredHeaderSize(n) == IF Field32(n) = 1 THEN 16 ELSE 8

ComputedSize(n, end) ==
  IF Field32(n) = 0 THEN end - n
  ELSE IF Field32(n) = 1 THEN Ext64Low(n)
  ELSE Field32(n)

WellFormedType(n) ==
  Len(TypeBytes(n)) = 4 /\ \A k \in 1..4 : TypeBytes(n)[k] # 0

Rejected(built, i, err) ==
  i = Len(reads) /\ raised = <<err>> /\ AtomsAt(built, reads[i].start) = {}

Accepted(built, i, size) ==
  \E a \in AtomsAt(built, reads[i].start) :
    a.size = size /\ a.type = TypeBytes(reads[i].start)

LastAtom(f) == f.atoms[Len(f.atoms)]

C2_AsStated ==
  LET built == BuiltAtoms IN
  /\ \A i \in 2..Len(stack) :
       LET a == LastAtom(stack[i - 1])
       IN /\ stack[i].start = a.off + DeclaredHeaderSize(a.off)
          /\ stack[i].end = a.off + a.size
  /\ \A i \in 1..Len(reads) :
       reads[i].kind # <<>> =>
         \E a \in built :
           /\ a.type = reads[i].kind
           /\ reads[i].start = a.off + DeclaredHeaderSize(a.off)
           /\ reads[i].end = a.off + a.size

(***************************************************************************)
(* C3 as stated: bytesToNumber of a 4-byte or 8-byte string is its         *)
(* unsigned big-endian value, 8-byte values of 2^32 and more included.     *)
(* (Two digit strings are the same number iff they agree once leading      *)
(* zeros are dropped.)                                                     *)
(***************************************************************************)
C3_AsStated ==
  (pc = "decoded" /\ Len(bytes) \in {4, 8}) => Strip(num) = Strip(bytes)

(***************************************************************************)
(* C4 as stated: a parse never succeeds with a decoded box whose payload   *)
(* has fewer bytes than the decoder's highest field offset (mvhd 26, mdhd  *)
(* 22, stsd 46, stsz 12, hdlr 12).  Stated for boxes with an 8-byte header *)
(* and with the bytes counted to the end of the source, the most that      *)
(* could be available.                                                     *)
(***************************************************************************)
Needed(type) ==
  IF type = mvhd THEN 26
  ELSE IF type = mdhd THEN 22
  ELSE IF type = stsd THEN 46
  ELSE 12

C4_AsStated ==
  Delivered =>
    \A a \in BuiltAtoms :
      (Has(a, "data") /\ Field32(a.off) # 1) =>
        Len(file) - (a.off + 8) >= Needed(a.type)

(***************************************************************************)
(* C5: the caller's callback is invoked at most once, and exactly once as  *)
(* soon as no read is outstanding; with no error raised it gets a result   *)
(* whose tree is complete, and with an error raised it gets that very      *)
(* error, no result and none of the boxes built so far; no read is asked   *)
(* after the call.                                                         *)
(***************************************************************************)
Complete(a) ==
  /\ a.type \in Containers => Has(a, "atoms")
  /\ a.type \in Decoded => Has(a, "data")

C5_CallbackOnce ==
  /\ Len(calls) <= 1
  /\ Len(raised) <= 1
  /\ (pc = "called" /\ pending = {}) => Len(calls) = 1
  /\ raised # <<>> => calls # <<>>
  /\ calls # <<>> =>
       /\ pending = {}
       /\ calls[1].at = Len(reads)
       /\ IF raised = <<>>
            THEN /\ calls[1].err = Null
                 /\ Delivered
                 /\ Has(calls[1].result, "atoms")
                 /\ stack = <<>>
                 /\ \A a \in AtomSet(calls[1].result.atoms) : Complete(a)
            ELSE /\ calls[1].err = raised[1]
                 /\ DOMAIN calls[1] = {"err", "at"}

\* A failure two levels down, after a box was appended at the top level.
C5_Witness ==
  /\ Len(stack) >= 3
  /\ Len(stack[1].atoms) >= 1
  /\ Len(stack[3].atoms) >= 1
  /\ raised # <<>>
  /\ calls = <<[err |-> raised[1], at |-> Len(reads)]>>

(***************************************************************************)
(* C6: a header whose 32-bit size field is 0 is accepted exactly when its  *)
(* tag is well formed and at least 8 bytes remain in the enclosing range;  *)
(* the box then has size end - n, its payload starts at n + 8, and it is   *)
(* the last box of its range: the cursor stands at end after it.           *)
(***************************************************************************)
Sentinel0(off) == Len(Slice(file, off, off + 4)) = 4 /\ Field32(off) = 0

RECURSIVE SentinelLast(_, _)
SentinelLast(atoms, end) ==
  \A k \in 1..Len(atoms) :
    /\ Sentinel0(atoms[k].off) =>
         /\ k = Len(atoms)
         /\ atoms[k].size = end - atoms[k].off
         /\ atoms[k].size >= 8
    /\ SentinelLast(Kids(atoms[k]), atoms[k].off + atoms[k].size)

Result == calls[1].result

Moovs == OfType(Result.atoms, moov)

Mdias == OfType(KidsOfAll(OfType(KidsOfAll(Moovs, 1), trak), 1), mdia)

IsVideo(m) ==
  LET hs == OfType(Kids(m), hdlr)
  IN hs # <<>> /\ hs[Len(hs)].data.subtype = vide

Videos == SelectSeq(Mdias, IsVideo)

TrackFields == {"width", "height", "resolution", "frameRate"}

Source(m, type, field) ==
  LET stbls == OfType(KidsOfAll(OfType(Kids(m), minf), 1), stbl)
      found == IF type = mdhd THEN OfType(Kids(m), mdhd)
               ELSE OfType(KidsOfAll(stbls, 1), type)
  IN IF found = <<>> THEN Zero ELSE found[Len(found)].data[field]

\* The value the track offers for the field; Zero stands for none.
Offer(m, f) ==
  IF f = "frameRate"
    THEN [sampleCount |-> Source(m, stsz, "sampleCount"),
          timeScale |-> Source(m, mdhd, "timeScale"),
          duration |-> Source(m, mdhd, "duration")]
    ELSE Source(m, stsd, f)

Offers(m, f) ==
  IF f = "frameRate"
    THEN /\ Offer(m, f).sampleCount # Zero
         /\ Offer(m, f).timeScale # Zero
         /\ Offer(m, f).duration # Zero
    ELSE Offer(m, f) # Zero

Max(S) == CHOOSE x \in S : \A y \in S : y <= x

(***************************************************************************)
(* C7 as stated: with more than one qualifying video track, each of width, *)
(* height, resolution and frameRate in the result is the value derived     *)
(* from the last qualifying track.                                         *)
(***************************************************************************)
C7_AsStated ==
  (Delivered /\ Len(Videos) > 1) =>
    \A f \in TrackFields :
      Has(Result, f) =>
        /\ Offers(Videos[Len(Videos)], f)
        /\ Result[f] = Offer(Videos[Len(Videos)], f)

(***************************************************************************)
(* C7 amended: each of width, height, resolution and frameRate in the      *)
(* result is the value of the last qualifying video track that has a       *)
(* non-zero value for that field (for frameRate: non-zero sampleCount,     *)
(* timeScale and duration); a later qualifying track without one leaves    *)
(* the earlier track's value in place, field by field.                     *)
(***************************************************************************)
C7_LastNonZeroWins ==
  Delivered =>
    \A f \in TrackFields :
      LET ks == { k \in 1..Len(Videos) : Offers(Videos[k], f) }
      IN IF ks = {} THEN ~Has(Result, f)
         ELSE Has(Result, f) /\ Result[f] = Offer(Videos[Max(ks)], f)

\* Two video tracks, the later one without a width: the width is the
\* earlier track's and the height the later one's.
C7_Witness ==
  /\ Delivered
  /\ Len(Videos) = 2
  /\ ~Offers(Videos[2], "width")
  /\ Has(Result, "width")
  /\ Result["width"] = Offer(Videos[1], "width")
  /\ Result["height"] = Offer(Videos[2], "height")
  /\ Result["height"] # Offer(Videos[1], "height")

(***************************************************************************)
(* C8 as stated: each of duration, width, height, resolution and frameRate *)
(* is in the result only if the leaf-box values it is derived from exist   *)
(* and are non-zero.                                                       *)
(***************************************************************************)
Mvhds == OfType(KidsOfAll(Moovs, 1), mvhd)

TrackFieldsFounded ==
  \A f \in TrackFields :
    Has(Result, f) => \E k \in 1..Len(Videos) : Offers(Videos[k], f)

C8_AsStated ==
  Delivered =>
    /\ TrackFieldsFounded
    /\ Has(Result, "duration") =>
         \E k \in 1..Len(Mvhds) :
           Mvhds[k].data.duration # Zero /\ Mvhds[k].data.timeScale # Zero

(***************************************************************************)
(* C8 amended: width, height, resolution and frameRate are in the result   *)
(* only if a qualifying video track holds non-zero values for them;        *)
(* duration is in the result exactly when a moov holds an mvhd, and is the *)
(* quotient duration / timeScale of the last of them even when either is   *)
(* zero (0, NaN or Infinity).                                              *)
(***************************************************************************)
C8_OptionalFields ==
  Delivered =>
    /\ TrackFieldsFounded
    /\ DOMAIN Result \subseteq TrackFields \cup {"duration", "atoms"}
    /\ Has(Result, "duration") <=> Mvhds # <<>>
    /\ Mvhds # <<>> =>
         Result["duration"] =
           [duration |-> Mvhds[Len(Mvhds)].data.duration,
            timeScale |-> Mvhds[Len(Mvhds)].data.timeScale]

\* An mvhd with duration 0 and timeScale 0, and a video track whose width
\* is 0: the result has a duration and no width.
C8_Witness ==
  /\ Delivered
  /\ Has(Result, "duration")
  /\ Result["duration"] = [duration |-> Zero, timeScale |-> Zero]
  /\ Len(Videos) = 1
  /\ ~Has(Result, "width")
  /\ Has(Result, "height")

(***************************************************************************)
(* C9 as stated: the decoded payload of a box is a function of the bytes   *)
(* of its own payload range [payloadStart, boxEnd) alone: decoding just    *)
(* those bytes gives the same record.  Stated for boxes with an 8-byte     *)
(* header in a tree delivered as success.                                  *)
(***************************************************************************)
C9_AsStated ==
  Delivered =>
    \A a \in BuiltAtoms :
      (Has(a, "data") /\ Field32(a.off) # 1) =>
        a.data = DecodeBody(a.type, Slice(file, a.off + 8, a.off + a.size),
                            a.off + a.size)

(***************************************************************************)
(* C10: at most one read is outstanding, and it is the one asked last;     *)
(* reads are asked in byte order (no read starts before an earlier one,    *)
(* and header reads start at least 8 bytes apart); a body read follows     *)
(* directly on the answered and accepted header read of its own box; when  *)
(* the header of a sibling is asked for, every earlier box of that level   *)
(* has its children or payload in place; and every atoms array is in byte  *)
(* order.                                                                  *)
(***************************************************************************)
RECURSIVE InByteOrder(_)
InByteOrder(atoms) ==
  /\ \A k \in 1..Len(atoms) - 1 : atoms[k].off < atoms[k + 1].off
  /\ \A k \in 1..Len(atoms) : InByteOrder(Kids(atoms[k]))

HeaderPending ==
  \E r \in pending : r.kind = <<>>

C10_ReadOrder ==
  LET built == BuiltAtoms IN
  /\ Cardinality(pending) <= 1
  /\ \A r \in pending : reads # <<>> /\ r = reads[Len(reads)]
  /\ \A i \in 2..Len(reads) : reads[i - 1].from <= reads[i].from
  /\ \A i \in 1..Len(reads) : \A j \in i + 1..Len(reads) :
       (reads[i].kind = <<>> /\ reads[j].kind = <<>>) =>
         reads[i].start + 8 <= reads[j].start
  /\ \A i \in 1..Len(reads) :
       reads[i].kind # <<>> =>
         /\ i > 1
         /\ reads[i - 1].kind = <<>>
         /\ reads[i - 1].start + 8 = reads[i].start
         /\ \E a \in AtomsAt(built, reads[i - 1].start) :
              a.type = reads[i].kind /\ a.off + a.size = reads[i].end
  /\ \A i \in 1..Len(stack) :
       /\ InByteOrder(stack[i].atoms)
       /\ \A k \in 1..Len(stack[i].atoms) - 1 : Complete(stack[i].atoms[k])
       /\ (HeaderPending /\ i = Len(stack)) =>
            \A k \in 1..Len(stack[i].atoms) : Complete(stack[i].atoms[k])
       /\ i > 1 =>
            /\ stack[i - 1].atoms # <<>>
            /\ LastAtom(stack[i - 1]).off < stack[i].start
            /\ stack[i].end = stack[i - 1].n
  /\ Delivered => InByteOrder(Result.atoms)

\* A Blob parse waiting for the header of a box whose earlier sibling is a
\* container with a decoded child.
C10_Witness ==
  /\ kind = "Blob"
  /\ HeaderPending
  /\ \E i \in 1..Len(stack) : \E k \in 1..Len(stack[i].atoms) :
       LET a == stack[i].atoms[k]
       IN /\ Has(a, "atoms")
          /\ \E c \in AtomSet(a.atoms) : Has(c, "data")
          /\ \E r \in pending : r.start = a.off + a.size

(***************************************************************************)
(* C11: the parse terminates, because the cursor of every level only moves *)
(* forward inside its range.  In every activation start <= n <= end; every *)
(* box it accepted lies at least 8 bytes after the one before it, and the  *)
(* cursor at least 8 bytes after the last; so a level accepts at most      *)
(* (end - start) / 8 headers and asks for no more than that rounded up     *)
(* (a tail of fewer than 8 bytes is asked for once, and refused); a nested *)
(* range starts at least 8 bytes inside the enclosing one, so the nesting  *)
(* depth is at most Len(file) / 8.  With the call made and every read      *)
(* answered, the caller's callback is eventually invoked.                  *)
(***************************************************************************)
\* Where the cursor of an activation has stood.
CursorStops(f) ==
  {f.start} \cup { f.atoms[k].off + f.atoms[k].size : k \in 1..Len(f.atoms) }

\* The header reads an activation asked for.
LevelReads(f) ==
  { j \in 1..Len(reads) :
      /\ reads[j].kind = <<>>
      /\ reads[j].end = f.end
      /\ reads[j].start \in CursorStops(f) }

CursorAdvances(f) ==
  /\ f.start <= f.n /\ f.n <= f.end
  /\ f.atoms = <<>> => f.n = f.start
  /\ f.atoms # <<>> =>
       /\ f.atoms[1].off = f.start
       /\ f.n >= f.atoms[Len(f.atoms)].off + 8
  /\ \A k \in 1..Len(f.atoms) - 1 : f.atoms[k + 1].off >= f.atoms[k].off + 8
  /\ Len(f.atoms) <= (f.end - f.start) \div 8
  /\ Cardinality(LevelReads(f)) <= (f.end - f.start + 7) \div 8
  /\ \A j \in LevelReads(f) : f.start <= reads[j].start /\ reads[j].start < f.end

C11_CursorBound ==
  /\ \A i \in 1..Len(stack) : CursorAdvances(stack[i])
  /\ \A i \in 2..Len(stack) :
       /\ stack[i].start >= stack[i - 1].start + 8
       /\ stack[i].end <= stack[i - 1].end
  /\ Len(stack) >= 1 => Len(stack) - 1 <= Len(file) \div 8
  /\ \A a \in BuiltAtoms :
       /\ a.size >= 8
       /\ Has(a, "atoms") => Len(a.atoms) <= (a.size - 8) \div 8
  /\ Len(reads) <= 2 * ((Len(file) + 7) \div 8)

RECURSIVE SumOfSizes(_, _)
SumOfSizes(atoms, k) ==
  IF k > Len(atoms) THEN 0 ELSE atoms[k].size + SumOfSizes(atoms, k + 1)

Tiles(atoms, start, end) ==
  /\ SumOfSizes(atoms, 1) = end - start
  /\ atoms = <<>> => start = end
  /\ atoms # <<>> =>
       /\ atoms[1].off = start
       /\ atoms[Len(atoms)].off + atoms[Len(atoms)].size = end
  /\ \A k \in 1..Len(atoms) - 1 :
       atoms[k + 1].off = atoms[k].off + atoms[k].size

\* The range consumeAtoms was called on for the children of a container.
ChildRange(a) ==
  [start |-> PayloadStart(a.off, DeclaredHeaderSize(a.off)),
   end |-> a.off + a.size]

C12_Tiling ==
  LET built == BuiltAtoms IN
  /\ Delivered => Tiles(Result.atoms, 0, Len(file))
  /\ \A a \in built :
       Has(a, "atoms") =>
         /\ Tiles(a.atoms, ChildRange(a).start, ChildRange(a).end)
         /\ SumOfSizes(a.atoms, 1) = a.size - 8
         /\ \A k \in 1..Len(a.atoms) :
              a.atoms[k].off + a.atoms[k].size <= a.off + a.size
  /\ \A i \in 1..Len(reads) :
       (HeaderAnswered(i) /\ reads[i].end - reads[i].start < 8) =>
         /\ i = Len(reads)
         /\ raised # <<>>
         /\ ~Delivered
  /\ Delivered =>
       \A i \in 1..Len(reads) :
         reads[i].kind = <<>> =>
           /\ reads[i].end - reads[i].start >= 8
           /\ \E a \in AtomsAt(built, reads[i].start) :
                a.off + a.size <= reads[i].end

\* A tree was delivered with two boxes at the top level and a container
\* of two children, one of them a container again.
C12_Witness ==
  /\ Delivered
  /\ Len(Result.atoms) >= 2
  /\ \E a \in BuiltAtoms :
       /\ Has(a, "atoms")
       /\ Len(a.atoms) >= 2
       /\ \E k \in 1..Len(a.atoms) :
            Has(a.atoms[k], "atoms") /\ a.atoms[k].atoms # <<>>

=============================================================================
